---- MODULE Spec2Model ----
(***************************************************************************)
(* Model of src/src/performance/index.ts: ParallelExecutor (the task      *)
(* executor with per-attempt deadline and retry).                          *)
(*                                                                         *)
(* One executeParallel call is modelled as the event-loop steps it is made *)
(* of: the synchronous tasks.map that starts every task, the settling of   *)
(* an attempt (fulfilled, rejected, or its deadline timer firing), the     *)
(* expiry of a backoff timer, the passing of time, and the continuation    *)
(* after Promise.allSettled.  Time is counted in milliseconds and advances *)
(* in steps of TickMs; every pending setTimeout is a countdown.            *)
(*                                                                         *)
(* Specifications: Spec (one executeParallel call), FairSpec (Spec on a    *)
(* running event loop), CallsSpec (several calls on one executor),         *)
(* CacheSpec (the CacheManager, one operation after the other),            *)
(* OverlapSpec (get, set and cleanup of the CacheManager await by await),  *)
(* MemSpec (the MemoryOptimizer) and ConstructSpec (the constructors).     *)
(***************************************************************************)
EXTENDS Integers, Sequences, FiniteSets, TLC

\* ---------------------------------------------------------------- bounds
MaxTasks == 2          \* largest batch handed to executeParallel
MaxRetriesCfg == 2     \* largest config.maxRetries passed to the constructor
MaxWorkersCfg == 1     \* largest config.maxWorkers passed to the constructor
MaxCpus == 2           \* largest number of CPU cores the host reports
MaxTimeoutTicks == 2   \* largest config.timeout, in ticks of TickMs
MaxAgeCfg == 1         \* largest maxAge passed to the CacheManager constructor, in ms
MaxClock == 2          \* the clock of the cache stops here, in ms
MaxThresholdCfg == 2   \* largest gcThreshold passed to the MemoryOptimizer, in MB
MaxMonitors == 2       \* monitorMemory is called at most this often
MaxCalls == 2          \* executeParallel calls on one executor, when several are followed

\* the unit of the backoff delays, in ms (the 100 of Math.pow(2, attempt) * 100);
\* the clock advances by this much and every timer of the model is a multiple of it
TickMs == 100

Tasks == 1..MaxTasks

\* ---------------------------------------------------------------- values
\* What a task attempt can produce.  Every attempt of every task has its own
\* value and its own error, so that slots, attempts and tasks can be told
\* apart; a task may also resolve to undefined.
TaskValue(i, a) == [tag |-> "value", task |-> i, attempt |-> a]
Undefined == [tag |-> "undefined", task |-> 0, attempt |-> 0]
\* a slot of the results array that was never assigned (an array hole)
Hole == [tag |-> "empty", task |-> 0, attempt |-> 0]
NoValue == [tag |-> "none", task |-> 0, attempt |-> 0]

TaskError(i, a) == [message |-> "task failed", task |-> i, attempt |-> a]
\* new Error('Task timeout')
TaskTimeout == [message |-> "Task timeout", task |-> 0, attempt |-> 0]
\* new Error('Max retries exceeded')
MaxRetriesExceeded == [message |-> "Max retries exceeded", task |-> 0, attempt |-> 0]
NoError == [message |-> "", task |-> 0, attempt |-> 0]

VARIABLES
    config,     \* this.config
    status,     \* the executeParallel call: "idle", "running", "returned", "thrown"
    total,      \* tasks.length
    pc,         \* per task: where its async callback is
    attempt,    \* per task: the loop variable of retryTask (0 outside retryTask)
    timer,      \* per task: ms left on the setTimeout its callback waits on
    results,    \* the results array, slot by slot
    errors,     \* the errors array: <<[by, error]>>, by = the task whose callback pushed
    promises,   \* per task: how the promise of tasks.map settled
    progress,   \* the onProgress calls so far: <<[slot, completed, total]>>, slot = the
                \* task whose callback made the call (not passed to onProgress)
    returned,   \* the list executeParallel returned
    thrown,     \* the messages joined into the error executeParallel threw
    calls,      \* per task: how many times task() was called
    failures,   \* per task: how many of its attempts failed
    waited,     \* per task: ms elapsed since its latest attempt failed
    lastWait,   \* per task: value of waited when its latest attempt started
    owner,      \* per task, when several calls are followed: the call it belongs to
    invoked     \* per call, when several calls are followed: how far it is, its
                \* tasks.length, what it returned or threw

\* CacheManager and the file system under its directory
VARIABLES
    cacheConfig, \* this.config of the CacheManager
    dirExists,   \* the directory this.cacheDir exists
    files,       \* per file name of the directory: [present, content, mtime], and the
                 \* key whose set wrote the file
    now,         \* Date.now(), in ms
    lastSet,     \* the latest call of set, while no clear() followed it
    cacheRet,    \* how the latest cache operation ended
    pending      \* the fs calls that operations in progress are still to make

\* MemoryOptimizer and the runtime it samples
VARIABLES
    memConfig,   \* this.config of the MemoryOptimizer
    heapUsed,    \* process.memoryUsage().heapUsed, in bytes
    gcAvailable, \* global.gc is defined (node --expose-gc)
    gcInvoked,   \* global.gc has been called
    monitors,    \* per timer of monitorMemory: "unused", "active", "cancelled"
    memRet       \* how the latest MemoryOptimizer call ended

execVars == <<config, status, total, pc, attempt, timer, results, errors, promises,
              progress, returned, thrown, calls, failures, waited, lastWait,
              owner, invoked>>
cacheVars == <<cacheConfig, dirExists, files, now, lastSet, cacheRet, pending>>
memVars == <<memConfig, heapUsed, gcAvailable, gcInvoked, monitors, memRet>>

vars == <<execVars, cacheVars, memVars>>

TypeOK ==
    /\ status \in {"idle", "running", "returned", "thrown"}
    /\ total \in 0..MaxTasks
    /\ pc \in [Tasks -> {"none", "first", "retry", "backoff", "fulfilled", "rejected"}]
    /\ \A i \in Tasks : attempt[i] \in Nat /\ timer[i] \in Nat /\ calls[i] \in Nat

\* ------------------------------------------------------------ constructor
Max(a, b) == IF a >= b THEN a ELSE b

\* the defaults of the constructor, on a host with cpus cores
DefaultConfig(cpus) ==
    [maxWorkers |-> Max(1, cpus - 1),
     timeout |-> 30000,
     retryFailed |-> TRUE,
     maxRetries |-> 3]

\* { ...defaults, ...config }: a key of the partial config wins over the default
Constructor(cpus, partial) ==
    [k \in DOMAIN DefaultConfig(cpus) |->
        IF k \in DOMAIN partial THEN partial[k] ELSE DefaultConfig(cpus)[k]]

\* the partial configs the model constructs executors with: timeout and
\* maxRetries are always given (they size the timers), maxWorkers and
\* retryFailed may be left to the defaults
PartialConfigs ==
    LET base == { [timeout |-> t * TickMs, maxRetries |-> r] :
                      t \in 1..MaxTimeoutTicks, r \in 0..MaxRetriesCfg }
        withRetry == base \cup
            { [timeout |-> b.timeout, maxRetries |-> b.maxRetries, retryFailed |-> f] :
                  b \in base, f \in BOOLEAN }
    IN  withRetry \cup
            { [k \in DOMAIN p \cup {"maxWorkers"} |->
                  IF k = "maxWorkers" THEN w ELSE p[k]] :
                  p \in withRetry, w \in 1..MaxWorkersCfg }

\* a constructor called without a config: config = {}
NoPartial == [k \in {} |-> 0]

\* --------------------------------------------- CacheManager: construction
\* the keys the model caches under, and the values it caches: two values that
\* survive JSON, NaN (which JSON.stringify turns into null) and undefined
\* (for which JSON.stringify returns undefined, no text at all)
Keys == {"a", "b"}
Values == {"v1", "v2", "NaN", "undefined"}
Null == "null"

\* crypto.createHash('md5').update(key).digest('hex')
Md5(key) ==
    CASE key = "a" -> "0cc175b9c0f1b6a831c399e269772661"
      [] key = "b" -> "92eb5ffee6ae2fec3ad71c777531578f"

\* variant of GetFilePath: the time of the call enters the hash
GetFilePathStamped(key) ==
    IF now % 2 = 0 THEN Md5(key) ELSE Md5(CHOOSE k \in Keys : k # key)

\* getFilePath(key): path.join(this.cacheDir, `${hash}.json`); the directory is
\* the same for every key, the model names a file by its hash
GetFilePath(key) == Md5(key)

\* the names a file of the directory can have
FileNames == {Md5(k) : k \in Keys}

\* the text of a file: JSON text, or bytes that are no JSON
NoText == [json |-> FALSE, text |-> ""]
Garbage == [json |-> FALSE, text |-> "garbage"]

\* JSON.stringify(value)
Stringify(v) ==
    IF v = "undefined" THEN NoText
    ELSE IF v = "NaN" THEN [json |-> TRUE, text |-> Null]
    ELSE [json |-> TRUE, text |-> v]

ParseError == "SyntaxError"

\* JSON.parse(data)
Parse(data) == IF data.json THEN data.text ELSE ParseError

NoFile == [present |-> FALSE, content |-> NoText, mtime |-> 0, key |-> "none"]
NoSet == [key |-> "none", value |-> "none", at |-> 0, failed |-> "no", over |-> FALSE]
NoCall == [op |-> "none", key |-> "none", value |-> "none", threw |-> FALSE,
           failed |-> "no", unlinked |-> 0]

\* the defaults of the CacheManager constructor
DefaultCacheConfig ==
    [enabled |-> TRUE,
     directory |-> ".vitest-cache",
     maxAge |-> 24 * 60 * 60 * 1000,
     compression |-> FALSE]

\* { ...defaults, ...config }
CacheConstructor(partial) ==
    [k \in DOMAIN DefaultCacheConfig |->
        IF k \in DOMAIN partial THEN partial[k] ELSE DefaultCacheConfig[k]]

\* the storage and the records of the model when a CacheManager is constructed
CacheStart ==
    /\ files = [f \in FileNames |-> NoFile]
    /\ now = 0
    /\ lastSet = NoSet
    /\ cacheRet = NoCall
    /\ pending = {}

\* export const cacheManager = new CacheManager()
CacheSingleton ==
    /\ cacheConfig = CacheConstructor(NoPartial)
    /\ dirExists = FALSE
    /\ CacheStart

\* ------------------------------------------ MemoryOptimizer: construction
\* the defaults of the MemoryOptimizer constructor, in MB
DefaultMemoryConfig ==
    [gcThreshold |-> 512,
     forceGC |-> FALSE,
     maxHeapSize |-> 1024]

\* { ...defaults, ...config }
MemoryConstructor(partial) ==
    [k \in DOMAIN DefaultMemoryConfig |->
        IF k \in DOMAIN partial THEN partial[k] ELSE DefaultMemoryConfig[k]]

\* heapUsed / 1024 / 1024: the bytes of a megabyte
BytesPerMB == 1024 * 1024

\* the heap sizes the model lets process.memoryUsage() report, in bytes: for
\* each threshold t the sizes t MB, t MB + 1 byte and t.5 MB, and 0
HeapSamples ==
    {0} \cup UNION { {t * BytesPerMB, t * BytesPerMB + 1, t * BytesPerMB + BytesPerMB \div 2} :
                      t \in 1..MaxThresholdCfg }

NoSample == [heapUsed |-> 0, threshold |-> 0, shouldGC |-> FALSE]
NoMemCall ==
    [op |-> "none", result |-> FALSE, hook |-> FALSE, seen |-> 0, moved |-> FALSE,
     stats |-> NoSample, timer |-> 0]

MonitorIds == 1..MaxMonitors

MemStart ==
    /\ gcInvoked = FALSE
    /\ monitors = [m \in MonitorIds |-> "unused"]
    /\ memRet = NoMemCall

\* export const memoryOptimizer = new MemoryOptimizer()
MemorySingleton ==
    /\ memConfig = MemoryConstructor(NoPartial)
    /\ heapUsed = 0
    /\ gcAvailable = FALSE
    /\ MemStart

\* the calls of executeParallel that are told apart when several are followed
Calls == 1..MaxCalls

\* a call that has not been made; overlap tells whether another call was
\* running when this one was made
NotInvoked ==
    [status |-> "idle", n |-> 0, returned |-> <<>>, thrown |-> <<>>, overlap |-> FALSE]

\* export const parallelExecutor = new ParallelExecutor(), before any call
ExecStart ==
    /\ status = "idle"
    /\ total = 0
    /\ pc = [i \in Tasks |-> "none"]
    /\ attempt = [i \in Tasks |-> 0]
    /\ timer = [i \in Tasks |-> 0]
    /\ results = [i \in Tasks |-> Hole]
    /\ errors = <<>>
    /\ promises = [i \in Tasks |-> [state |-> "pending", value |-> NoValue, reason |-> NoError]]
    /\ progress = <<>>
    /\ returned = <<>>
    /\ thrown = <<>>
    /\ calls = [i \in Tasks |-> 0]
    /\ failures = [i \in Tasks |-> 0]
    /\ waited = [i \in Tasks |-> 0]
    /\ lastWait = [i \in Tasks |-> 0]
    /\ owner = [i \in Tasks |-> 0]
    /\ invoked = [c \in Calls |-> NotInvoked]

ExecSingleton ==
    /\ config = Constructor(MaxCpus, NoPartial)
    /\ ExecStart

Init ==
    /\ \E cpus \in 0..MaxCpus, partial \in PartialConfigs :
           config = Constructor(cpus, partial)
    /\ ExecStart
    /\ CacheSingleton
    /\ MemorySingleton

\* -------------------------------------------------------- small operators
\* variant: results.push(result), which files the values in completion order
StoreResultAppend(res, index, v) ==
    [res EXCEPT ![Cardinality({i \in Tasks : res[i] # Hole}) + 1] = v]

\* results[index] = result
StoreResult(res, index, v) == [res EXCEPT ![index] = v]

\* results.filter(r => r !== undefined).length: filter skips the holes of the
\* array and the predicate drops the slots that hold undefined
FilledCount(res) == Cardinality({i \in Tasks : res[i] # Hole /\ res[i] # Undefined})

\* the results array of the call that task i belongs to: results is a local
\* of executeParallel, one array per call
OwnResults(res, i) == [j \in Tasks |-> IF owner[j] = owner[i] THEN res[j] ELSE Hole]

\* tasks.length of the call that task i belongs to
OwnLength(i) == IF owner[i] = 0 THEN total ELSE invoked[owner[i]].n

\* results.length: one more than the highest index ever assigned
ArrayLength(res) ==
    LET assigned == {i \in Tasks : res[i] # Hole}
    IN  IF assigned = {} THEN 0 ELSE CHOOSE m \in assigned : \A j \in assigned : j <= m

\* variant: the error is recorded only when the task is not going to be retried
PushErrorUnlessRetrying(errs, i, e) ==
    IF config.retryFailed THEN errs ELSE Append(errs, [by |-> i, error |-> e])

\* errors.push(error as Error), by the callback of task i
PushError(errs, i, e) == Append(errs, [by |-> i, error |-> e])

\* errors.map(e => e.message).join(', '): the messages, in push order
JoinMessages(errs) == [k \in 1..Len(errs) |-> errs[k].error]

\* variant: the loop runs one round too many
LoopContinuesOneMore(a) == a <= config.maxRetries + 1

\* for (attempt = 1; attempt <= maxRetries; ...): the loop condition of retryTask
LoopContinues(a) == a <= config.maxRetries

\* if (attempt === this.config.maxRetries) throw error
LastRetry(a) == a = config.maxRetries

\* Math.pow(2, attempt) * 100
BackoffDelay(a) == (2 ^ a) * TickMs

\* an operation of task i is executing: started by task(), racing its deadline
Running(i) == pc[i] \in {"first", "retry"}
InFlight == Cardinality({i \in Tasks : Running(i)})
\* ------------------------------------------------------ promise settling
Fulfilled(v) == [state |-> "fulfilled", value |-> v, reason |-> NoError]
Rejected(e) == [state |-> "rejected", value |-> NoValue, reason |-> e]

\* the async callback of task i ends: its promise settles as p
SettleSlot(i, p) ==
    /\ promises' = [promises EXCEPT ![i] = p]
    /\ pc' = [pc EXCEPT ![i] = p.state]
    /\ timer' = [timer EXCEPT ![i] = 0]

\* executeWithTimeout(task(), this.config.timeout) inside retryTask, with the
\* loop variable at a: task() is called again and races a fresh deadline
StartRetry(i, a) ==
    /\ pc' = [pc EXCEPT ![i] = "retry"]
    /\ attempt' = [attempt EXCEPT ![i] = a]
    /\ timer' = [timer EXCEPT ![i] = config.timeout]
    /\ calls' = [calls EXCEPT ![i] = @ + 1]
    /\ lastWait' = [lastWait EXCEPT ![i] = waited[i]]
    /\ waited' = [waited EXCEPT ![i] = 0]
    /\ UNCHANGED promises

\* the head of the for loop of retryTask with the loop variable at a: another
\* attempt, or past the loop the throw new Error('Max retries exceeded')
RetryLoop(i, a) ==
    IF LoopContinues(a)
    THEN StartRetry(i, a)
    ELSE /\ SettleSlot(i, Rejected(MaxRetriesExceeded))
         /\ attempt' = [attempt EXCEPT ![i] = a]
         /\ UNCHANGED <<calls, lastWait, waited>>

\* the catch block of executeParallel: the first attempt of task i failed with e
FirstAttemptFailed(i, e) ==
    /\ errors' = PushError(errors, i, e)
    /\ IF config.retryFailed
       THEN RetryLoop(i, 1)
       ELSE /\ SettleSlot(i, Rejected(e))
            /\ UNCHANGED <<attempt, calls, lastWait, waited>>

\* the catch block of retryTask: the retry of task i failed with e
RetryAttemptFailed(i, e) ==
    /\ UNCHANGED <<errors, calls, lastWait>>
    /\ IF LastRetry(attempt[i])
       THEN /\ SettleSlot(i, Rejected(e))
            /\ UNCHANGED <<attempt, waited>>
       ELSE /\ pc' = [pc EXCEPT ![i] = "backoff"]
            /\ timer' = [timer EXCEPT ![i] = BackoffDelay(attempt[i])]
            /\ waited' = [waited EXCEPT ![i] = 0]
            /\ UNCHANGED <<attempt, promises>>

\* an attempt of task i failed with e: the catch block of the try it ran in
AttemptFailed(i, e) ==
    /\ failures' = [failures EXCEPT ![i] = @ + 1]
    /\ IF pc[i] = "first" THEN FirstAttemptFailed(i, e) ELSE RetryAttemptFailed(i, e)
    /\ UNCHANGED <<config, status, total, results, progress, returned, thrown>>

\* variant of OnTimeout: the timer fires without rejecting the race
OnTimeoutLost(i) ==
    UNCHANGED <<config, status, total, pc, attempt, timer, results, errors, promises,
                progress, returned, thrown, calls, failures, waited, lastWait>>

\* variant: the timeout error escapes the try blocks, so the slot is rejected
\* at once and the task is not retried
OnTimeoutFatal(i) ==
    /\ failures' = [failures EXCEPT ![i] = @ + 1]
    /\ errors' = IF pc[i] = "first" THEN PushError(errors, i, TaskTimeout) ELSE errors
    /\ SettleSlot(i, Rejected(TaskTimeout))
    /\ UNCHANGED <<config, status, total, attempt, results, progress, returned, thrown,
                   calls, waited, lastWait>>

\* the deadline of executeWithTimeout fired first: the race rejects with
\* new Error('Task timeout'), which the awaiting try block catches
OnTimeout(i) == AttemptFailed(i, TaskTimeout)

\* ---------------------------------------------------------------- actions
\* executeParallel(tasks, onProgress) with n tasks: tasks.map runs every
\* callback up to its first await, so every task() is called before any settles
ExecuteParallel(n) ==
    /\ status = "idle"
    /\ status' = "running"
    /\ total' = n
    /\ pc' = [i \in Tasks |-> IF i <= n THEN "first" ELSE "none"]
    /\ calls' = [i \in Tasks |-> IF i <= n THEN 1 ELSE 0]
    /\ timer' = [i \in Tasks |-> IF i <= n THEN config.timeout ELSE 0]
    /\ results' = [i \in Tasks |-> Hole]
    /\ errors' = <<>>
    /\ UNCHANGED <<config, attempt, promises, progress, returned, thrown,
                   failures, waited, lastWait>>
    /\ UNCHANGED <<owner, invoked>>
    /\ UNCHANGED <<cacheVars, memVars>>

\* the operation of the running attempt of task i fulfils with v before its deadline
Resolve(i, v) ==
    /\ status = "running"
    /\ Running(i)
    /\ timer[i] > 0
    /\ IF pc[i] = "first"
       THEN /\ results' = StoreResult(results, i, v)
            /\ progress' = Append(progress,
                                  [slot |-> i,
                                   completed |-> FilledCount(OwnResults(results', i)),
                                   total |-> OwnLength(i)])
       ELSE UNCHANGED <<results, progress>>
    /\ SettleSlot(i, Fulfilled(v))
    /\ UNCHANGED <<config, status, total, attempt, errors, returned, thrown,
                   calls, failures, waited, lastWait>>
    /\ UNCHANGED <<owner, invoked>>
    /\ UNCHANGED <<cacheVars, memVars>>

\* the operation of the running attempt of task i rejects (or task() throws)
\* before its deadline
Reject(i) ==
    /\ status = "running"
    /\ Running(i)
    /\ timer[i] > 0
    /\ AttemptFailed(i, TaskError(i, calls[i]))
    /\ UNCHANGED <<owner, invoked>>
    /\ UNCHANGED <<cacheVars, memVars>>

\* the deadline of the running attempt of task i passes with the operation unsettled
Timeout(i) ==
    /\ status = "running"
    /\ Running(i)
    /\ timer[i] = 0
    /\ OnTimeout(i)
    /\ UNCHANGED <<owner, invoked>>
    /\ UNCHANGED <<cacheVars, memVars>>

\* the backoff timer of task i fires: attempt++ and back to the head of the loop
BackoffElapsed(i) ==
    /\ status = "running"
    /\ pc[i] = "backoff"
    /\ timer[i] = 0
    /\ RetryLoop(i, attempt[i] + 1)
    /\ UNCHANGED <<config, status, total, results, errors, progress, returned, thrown,
                   failures>>
    /\ UNCHANGED <<owner, invoked>>
    /\ UNCHANGED <<cacheVars, memVars>>

\* TickMs pass: no timer that is due has been left unfired
Tick ==
    /\ status = "running"
    /\ \E i \in Tasks : pc[i] \in {"first", "retry", "backoff"}
    /\ \A i \in Tasks : pc[i] \in {"first", "retry", "backoff"} => timer[i] > 0
    /\ timer' = [i \in Tasks |-> IF timer[i] > 0 THEN timer[i] - TickMs ELSE 0]
    /\ waited' = [i \in Tasks |-> IF pc[i] = "backoff" THEN waited[i] + TickMs ELSE waited[i]]
    /\ UNCHANGED <<config, status, total, pc, attempt, results, errors, promises,
                   progress, returned, thrown, calls, failures, lastWait>>
    /\ UNCHANGED <<owner, invoked>>
    /\ UNCHANGED <<cacheVars, memVars>>

\* variant of AllSettledNow: only the first attempts are awaited, not the
\* retries the callbacks return
FirstAttemptsOverNow == \A i \in Tasks : i <= total => pc[i] # "first"

\* variant: Promise.race in place of Promise.allSettled
AnySettledNow == \E i \in Tasks : i <= total /\ promises[i].state # "pending"

\* await Promise.allSettled(promises): every promise of the batch has settled
AllSettledNow == \A i \in Tasks : i <= total => promises[i].state # "pending"

\* after await Promise.allSettled(promises): errors.length > 0, so throw
ThrowAggregate ==
    /\ status = "running"
    /\ AllSettledNow
    /\ Len(errors) > 0
    /\ status' = "thrown"
    /\ thrown' = JoinMessages(errors)
    /\ UNCHANGED <<config, total, pc, attempt, timer, results, errors, promises,
                   progress, returned, calls, failures, waited, lastWait>>
    /\ UNCHANGED <<owner, invoked>>
    /\ UNCHANGED <<cacheVars, memVars>>

\* after await Promise.allSettled(promises): no error was pushed, return results
ReturnResults ==
    /\ status = "running"
    /\ AllSettledNow
    /\ ~(Len(errors) > 0)
    /\ status' = "returned"
    /\ returned' = [k \in 1..ArrayLength(results) |-> results[k]]
    /\ UNCHANGED <<config, total, pc, attempt, timer, results, errors, promises,
                   progress, thrown, calls, failures, waited, lastWait>>
    /\ UNCHANGED <<owner, invoked>>
    /\ UNCHANGED <<cacheVars, memVars>>

Next ==
    \/ \E n \in 0..MaxTasks : ExecuteParallel(n)
    \/ \E i \in Tasks : Resolve(i, TaskValue(i, calls[i]))
    \/ \E i \in Tasks : Resolve(i, Undefined)
    \/ \E i \in Tasks : Reject(i)
    \/ \E i \in Tasks : Timeout(i)
    \/ \E i \in Tasks : BackoffElapsed(i)
    \/ Tick
    \/ ThrowAggregate
    \/ ReturnResults

Spec == Init /\ [][Next]_vars

\* Spec with the event loop running: time passes, a timer that is due fires
\* (setTimeout of executeWithTimeout and of the backoff wait), and the code
\* after await Promise.allSettled runs once every promise has settled.  No
\* fairness for Resolve and Reject: the operation of a task may never settle.
FairSpec ==
    /\ Spec
    /\ WF_vars(Tick)
    /\ \A i \in Tasks : WF_vars(Timeout(i)) /\ WF_vars(BackoffElapsed(i))
    /\ WF_vars(ThrowAggregate)
    /\ WF_vars(ReturnResults)

\* ------------------------------------------- several executeParallel calls
\* Calls on one executor, one after the other or overlapping.  The tasks of
\* the model are dealt out to the calls in the order the calls are made; a
\* call's tasks run by the same steps as above.  results and errors are
\* locals of executeParallel (lines 48-49): each call has its own arrays,
\* which here are the parts of results and errors that its own tasks wrote.

TasksOf(c) == {i \in Tasks : owner[i] = c}

\* the number of tasks dealt out to the calls made before call c
Base(c) == Cardinality({i \in Tasks : owner[i] # 0 /\ owner[i] < c})

\* variant of ErrorsOf: errors is one array of the executor, shared by its calls
ErrorsOfShared(c) == errors

\* the errors array of call c: what the callbacks of its own tasks pushed
ErrorsOf(c) == SelectSeq(errors, LAMBDA e : owner[e.by] = c)

\* the results array of call c, from its index 0 on
ResultsOf(c) ==
    [k \in Tasks |-> IF k <= invoked[c].n THEN results[Base(c) + k] ELSE Hole]

\* await Promise.allSettled(promises) of call c
CallSettledNow(c) == \A i \in TasksOf(c) : promises[i].state # "pending"

\* executeParallel(tasks, onProgress) with n tasks, as call c of the executor
StartCall(c, n) ==
    LET new == (total + 1)..(total + n)
    IN  /\ invoked[c].status = "idle"
        /\ \A d \in Calls : d < c => invoked[d].status # "idle"
        /\ total + n <= MaxTasks
        /\ status' = "running"
        /\ total' = total + n
        /\ pc' = [i \in Tasks |-> IF i \in new THEN "first" ELSE pc[i]]
        /\ calls' = [i \in Tasks |-> IF i \in new THEN 1 ELSE calls[i]]
        /\ timer' = [i \in Tasks |-> IF i \in new THEN config.timeout ELSE timer[i]]
        /\ owner' = [i \in Tasks |-> IF i \in new THEN c ELSE owner[i]]
        /\ invoked' = [invoked EXCEPT ![c] =
                          [status |-> "running", n |-> n, returned |-> <<>>,
                           thrown |-> <<>>,
                           overlap |-> \E d \in Calls : invoked[d].status = "running"]]
        /\ UNCHANGED <<config, attempt, results, errors, promises, progress, returned,
                       thrown, failures, waited, lastWait>>
        /\ UNCHANGED <<cacheVars, memVars>>

\* call c after its await Promise.allSettled: errors.length > 0, so throw
ThrowCall(c) ==
    /\ invoked[c].status = "running"
    /\ CallSettledNow(c)
    /\ Len(ErrorsOf(c)) > 0
    /\ invoked' = [invoked EXCEPT ![c].status = "thrown",
                                  ![c].thrown = JoinMessages(ErrorsOf(c))]
    /\ UNCHANGED <<config, status, total, pc, attempt, timer, results, errors, promises,
                   progress, returned, thrown, calls, failures, waited, lastWait, owner>>
    /\ UNCHANGED <<cacheVars, memVars>>

\* call c after its await Promise.allSettled: no error was pushed, return results
ReturnCall(c) ==
    /\ invoked[c].status = "running"
    /\ CallSettledNow(c)
    /\ ~(Len(ErrorsOf(c)) > 0)
    /\ invoked' = [invoked EXCEPT ![c].status = "returned",
                                  ![c].returned =
                                      [k \in 1..ArrayLength(ResultsOf(c)) |-> ResultsOf(c)[k]]]
    /\ UNCHANGED <<config, status, total, pc, attempt, timer, results, errors, promises,
                   progress, returned, thrown, calls, failures, waited, lastWait, owner>>
    /\ UNCHANGED <<cacheVars, memVars>>

CallsNext ==
    \/ \E c \in Calls, n \in 0..MaxTasks : StartCall(c, n)
    \/ \E i \in Tasks : Resolve(i, TaskValue(i, calls[i]))
    \/ \E i \in Tasks : Resolve(i, Undefined)
    \/ \E i \in Tasks : Reject(i)
    \/ \E i \in Tasks : Timeout(i)
    \/ \E i \in Tasks : BackoffElapsed(i)
    \/ Tick
    \/ \E c \in Calls : ThrowCall(c)
    \/ \E c \in Calls : ReturnCall(c)

CallsSpec == Init /\ [][CallsNext]_vars

\* ===================================================== CacheManager =====
\* Each operation is awaited before the next one starts, so an operation is
\* one step.  A call of fs may fail (no permission, a full or broken disk, a
\* path that is no directory): which one does is an input of the step.

CacheFrame == UNCHANGED <<execVars, memVars, cacheConfig, pending>>

\* variant of Expired: an entry lives one millisecond too long
ExpiredLate(f) == now - files[f].mtime > cacheConfig.maxAge + 1

\* Date.now() - stats.mtime.getTime() > this.config.maxAge
Expired(f) == now - files[f].mtime > cacheConfig.maxAge

CacheReturn(op, key, value, threw, failed, unlinked) ==
    [op |-> op, key |-> key, value |-> value, threw |-> threw, failed |-> failed,
     unlinked |-> unlinked]

\* how an fs call of an operation ended: "no" failure, "ENOENT" (the path does
\* not exist), "EIO" (the call itself failed), "TypeError" (writeFile was
\* handed no string), "SyntaxError" (JSON.parse was handed no JSON text);
\* "disabled" when the cache is disabled and nothing ran

\* variant of CacheInit: the directory is made for a disabled cache too
CacheInitAlways(mkdirFails) ==
    /\ IF mkdirFails
       THEN /\ cacheRet' = CacheReturn("init", "none", "none", TRUE, "EIO", 0)
            /\ UNCHANGED dirExists
       ELSE /\ cacheRet' = CacheReturn("init", "none", "void", FALSE, "no", 0)
            /\ dirExists' = TRUE
    /\ UNCHANGED <<files, now, lastSet>>
    /\ CacheFrame

\* init(): fs.mkdir(this.cacheDir, { recursive: true }), awaited outside any try
CacheInit(mkdirFails) ==
    /\ IF ~cacheConfig.enabled
       THEN /\ cacheRet' = CacheReturn("init", "none", "void", FALSE, "disabled", 0)
            /\ UNCHANGED dirExists
       ELSE IF mkdirFails
       THEN /\ cacheRet' = CacheReturn("init", "none", "none", TRUE, "EIO", 0)
            /\ UNCHANGED dirExists
       ELSE /\ cacheRet' = CacheReturn("init", "none", "void", FALSE, "no", 0)
            /\ dirExists' = TRUE
    /\ UNCHANGED <<files, now, lastSet>>
    /\ CacheFrame

\* what may go wrong in one get: an fs call fails, or the text readFile returns
\* is damaged (a torn write, a bad sector, another program's file)
GetFaults == {"none", "stat", "unlink", "readFile", "damaged"}

\* variant of GetCaught: the catch throws the error on
GetCaughtRethrown(failed) ==
    [value |-> "none", threw |-> TRUE, failed |-> failed, unlinked |-> FALSE]

\* the catch of get: whatever was thrown, return null
GetCaught(failed) == [value |-> Null, threw |-> FALSE, failed |-> failed, unlinked |-> FALSE]

\* the body of get(key) for an enabled cache: what it returns, which of its fs
\* calls failed, and whether it unlinked the file
GetOutcome(key, fault) ==
    LET f == GetFilePath(key)
        data == IF fault = "damaged" THEN Garbage ELSE files[f].content
    IN  IF ~dirExists \/ ~files[f].present THEN GetCaught("ENOENT")
        ELSE IF fault = "stat" THEN GetCaught("EIO")
        ELSE IF Expired(f)
        THEN IF fault = "unlink"
             THEN GetCaught("EIO")
             ELSE [value |-> Null, threw |-> FALSE, failed |-> "no", unlinked |-> TRUE]
        ELSE IF fault = "readFile" THEN GetCaught("EIO")
        ELSE IF Parse(data) = ParseError THEN GetCaught(ParseError)
        ELSE [value |-> Parse(data), threw |-> FALSE, failed |-> "no", unlinked |-> FALSE]

\* variant of CacheGet: the file is unlinked whatever its age
CacheGetUnlinking(key, fault) ==
    LET f == GetFilePath(key)
        out == GetOutcome(key, fault)
    IN  /\ IF ~cacheConfig.enabled
           THEN /\ cacheRet' = CacheReturn("get", key, Null, FALSE, "disabled", 0)
                /\ UNCHANGED files
           ELSE /\ cacheRet' = CacheReturn("get", key, out.value, out.threw, out.failed,
                                           IF out.unlinked THEN 1 ELSE 0)
                /\ files' = IF dirExists THEN [files EXCEPT ![f] = NoFile] ELSE files
        /\ UNCHANGED <<dirExists, now, lastSet>>
        /\ CacheFrame

\* get(key)
CacheGet(key, fault) ==
    LET f == GetFilePath(key)
        out == GetOutcome(key, fault)
    IN  /\ IF ~cacheConfig.enabled
           THEN /\ cacheRet' = CacheReturn("get", key, Null, FALSE, "disabled", 0)
                /\ UNCHANGED files
           ELSE /\ cacheRet' = CacheReturn("get", key, out.value, out.threw, out.failed,
                                           IF out.unlinked THEN 1 ELSE 0)
                /\ files' = IF out.unlinked THEN [files EXCEPT ![f] = NoFile] ELSE files
        /\ UNCHANGED <<dirExists, now, lastSet>>
        /\ CacheFrame

\* how fs.writeFile(filePath, data) of set ends
WriteFailure(data, fault) ==
    IF data = NoText THEN "TypeError"
    ELSE IF ~dirExists THEN "ENOENT"
    ELSE IF fault THEN "EIO"
    ELSE "no"

\* set(key, value)
CacheSet(key, value, fault) ==
    LET f == GetFilePath(key)
        data == Stringify(value)
        failed == IF cacheConfig.enabled THEN WriteFailure(data, fault) ELSE "disabled"
    IN  /\ files' = IF failed = "no"
                    THEN [files EXCEPT ![f] = [present |-> TRUE, content |-> data,
                                               mtime |-> now, key |-> key]]
                    ELSE files
        /\ cacheRet' = CacheReturn("set", key, "void", FALSE, failed, 0)
        /\ lastSet' = [key |-> key, value |-> value, at |-> now, failed |-> failed,
                       over |-> dirExists /\ files[f].present]
        /\ UNCHANGED <<dirExists, now>>
        /\ CacheFrame

\* what fs.readdir(this.cacheDir) lists
Listed == {f \in FileNames : files[f].present}

\* what may go wrong in one clear or cleanup: readdir fails, or the stat or
\* unlink of one file does.  Promise.all rejects at that failure while the
\* calls for the other files run to their end: the step shows the storage
\* once they have.
SweepFaults == {"none", "readdir"} \cup FileNames

\* how the fs calls of clear and cleanup end
SweepFailure(fault) ==
    IF ~cacheConfig.enabled THEN "disabled"
    ELSE IF ~dirExists THEN "ENOENT"
    ELSE IF fault = "readdir" \/ fault \in Listed THEN "EIO"
    ELSE "no"

\* variant of CacheClear: only the expired files are unlinked
CacheClearExpired(fault) ==
    LET failed == SweepFailure(fault)
        listed == cacheConfig.enabled /\ dirExists /\ fault # "readdir"
    IN  /\ files' = IF listed
                    THEN [f \in FileNames |->
                             IF files[f].present /\ f # fault /\ Expired(f)
                             THEN NoFile ELSE files[f]]
                    ELSE files
        /\ cacheRet' = CacheReturn("clear", "none", "void", FALSE, failed,
                                   Cardinality(Listed) - Cardinality(Listed'))
        /\ lastSet' = NoSet
        /\ UNCHANGED <<dirExists, now>>
        /\ CacheFrame

\* clear(): readdir, then Promise.all of an unlink per file
CacheClear(fault) ==
    LET failed == SweepFailure(fault)
        listed == cacheConfig.enabled /\ dirExists /\ fault # "readdir"
    IN  /\ files' = IF listed
                    THEN [f \in FileNames |-> IF f = fault THEN files[f] ELSE NoFile]
                    ELSE files
        /\ cacheRet' = CacheReturn("clear", "none", "void", FALSE, failed,
                                   Cardinality(Listed) - Cardinality(Listed'))
        /\ lastSet' = NoSet
        /\ UNCHANGED <<dirExists, now>>
        /\ CacheFrame

\* variant of CacheCleanup: every listed file is unlinked, whatever its age
CacheCleanupAll(fault) ==
    LET failed == SweepFailure(fault)
        listed == cacheConfig.enabled /\ dirExists /\ fault # "readdir"
    IN  /\ files' = IF listed
                    THEN [f \in FileNames |-> IF f = fault THEN files[f] ELSE NoFile]
                    ELSE files
        /\ cacheRet' = CacheReturn("cleanup", "none", "void", FALSE, failed,
                                   Cardinality(Listed) - Cardinality(Listed'))
        /\ UNCHANGED <<dirExists, now, lastSet>>
        /\ CacheFrame

\* cleanup(): readdir, then Promise.all of a stat and, for an expired file, an
\* unlink per file
CacheCleanup(fault) ==
    LET failed == SweepFailure(fault)
        listed == cacheConfig.enabled /\ dirExists /\ fault # "readdir"
    IN  /\ files' = IF listed
                    THEN [f \in FileNames |->
                             IF files[f].present /\ f # fault /\ Expired(f)
                             THEN NoFile ELSE files[f]]
                    ELSE files
        /\ cacheRet' = CacheReturn("cleanup", "none", "void", FALSE, failed,
                                   Cardinality(Listed) - Cardinality(Listed'))
        /\ UNCHANGED <<dirExists, now, lastSet>>
        /\ CacheFrame

\* a millisecond passes
CacheClock ==
    /\ now < MaxClock
    /\ now' = now + 1
    /\ cacheRet' = NoCall
    /\ UNCHANGED <<dirExists, files, lastSet>>
    /\ CacheFrame

\* the configs the model constructs cache managers with
PartialCacheConfigs ==
    { [maxAge |-> m] : m \in 0..MaxAgeCfg } \cup
    { [maxAge |-> m, enabled |-> e] : m \in 0..MaxAgeCfg, e \in BOOLEAN }

\* what an earlier process left in the directory: an entry for every key
StoredBefore ==
    [f \in FileNames |->
        LET k == CHOOSE key \in Keys : Md5(key) = f
        IN  [present |-> TRUE, content |-> Stringify("v1"), mtime |-> 0, key |-> k]]

\* new CacheManager(config), over a directory that does not exist, is empty,
\* or holds the entries of an earlier process
CacheInitial ==
    /\ \E partial \in PartialCacheConfigs : cacheConfig = CacheConstructor(partial)
    /\ dirExists \in BOOLEAN
    /\ files \in {[f \in FileNames |-> NoFile]} \cup
                 (IF dirExists THEN {StoredBefore} ELSE {})
    /\ now = 0
    /\ lastSet = NoSet
    /\ cacheRet = NoCall
    /\ pending = {}
    /\ ExecSingleton
    /\ MemorySingleton

CacheNext ==
    \/ \E fails \in BOOLEAN : CacheInit(fails)
    \/ \E k \in Keys, fault \in GetFaults : CacheGet(k, fault)
    \/ \E k \in Keys, v \in Values, fault \in BOOLEAN : CacheSet(k, v, fault)
    \/ \E fault \in SweepFaults : CacheClear(fault)
    \/ \E fault \in SweepFaults : CacheCleanup(fault)
    \/ CacheClock

CacheSpec == CacheInitial /\ [][CacheNext]_vars

\* ------------------------------------- CacheManager: overlapping calls
\* The steps of get, set and cleanup when calls overlap in one process: a
\* call runs up to an await, and the calls of the others may run before it
\* goes on.  pending holds, per call in progress, what it goes on with and
\* what it has seen.  One get and one cleanup are in progress at a time; set
\* has one await and is one step.  No fs call fails here but for a file
\* that is missing.

PendingGet == {c \in pending : c.op = "get"}
PendingCleanup == {c \in pending : c.op = "cleanup"}

\* what the get in progress, and the callback of the cleanup in progress for
\* file f, go on with
TheGet == CHOOSE c \in PendingGet : TRUE
TheCleanup(f) == CHOOSE c \in PendingCleanup : c.file = f

\* get(key) up to the end of its fs.stat: with no file the stat throws and get
\* returns null; with a file it goes on with unlink or with readFile
GetStat(key) ==
    LET f == GetFilePath(key)
    IN  /\ cacheConfig.enabled
        /\ PendingGet = {}
        /\ IF ~dirExists \/ ~files[f].present
           THEN /\ cacheRet' = CacheReturn("get", key, Null, FALSE, "ENOENT", 0)
                /\ UNCHANGED pending
           ELSE /\ pending' = pending \cup
                        {[op |-> "get", key |-> key, file |-> f, at |-> 0,
                          step |-> IF Expired(f) THEN "unlink" ELSE "readFile"]}
                /\ UNCHANGED cacheRet
        /\ UNCHANGED <<dirExists, files, now, lastSet>>
        /\ UNCHANGED <<execVars, memVars, cacheConfig>>

\* get goes on after the stat that found the file expired: fs.unlink and return null
GetUnlink ==
  LET c == TheGet IN
    /\ PendingGet # {}
    /\ c.step = "unlink"
    /\ pending' = pending \ {c}
    /\ files' = [files EXCEPT ![c.file] = NoFile]
    /\ cacheRet' = CacheReturn("get", c.key, Null, FALSE,
                               IF files[c.file].present THEN "no" ELSE "ENOENT",
                               IF files[c.file].present THEN 1 ELSE 0)
    /\ UNCHANGED <<dirExists, now, lastSet>>
    /\ UNCHANGED <<execVars, memVars, cacheConfig>>

\* get goes on after the stat that found the file fresh: fs.readFile, JSON.parse
GetRead ==
    LET c == TheGet
        data == files[c.file].content
        out == IF ~files[c.file].present THEN GetCaught("ENOENT")
               ELSE IF Parse(data) = ParseError THEN GetCaught(ParseError)
               ELSE [value |-> Parse(data), threw |-> FALSE, failed |-> "no",
                     unlinked |-> FALSE]
    IN  /\ PendingGet # {}
        /\ c.step = "readFile"
        /\ pending' = pending \ {c}
        /\ cacheRet' = CacheReturn("get", c.key, out.value, out.threw, out.failed, 0)
        /\ UNCHANGED <<dirExists, files, now, lastSet>>
        /\ UNCHANGED <<execVars, memVars, cacheConfig>>

\* cleanup() up to the end of its fs.readdir: now = Date.now(), and a callback
\* per listed file that starts with fs.stat
CleanupList ==
    /\ cacheConfig.enabled
    /\ dirExists
    /\ PendingCleanup = {}
    /\ pending' = pending \cup
            {[op |-> "cleanup", key |-> files[f].key, file |-> f, at |-> now,
              step |-> "stat"] : f \in Listed}
    /\ cacheRet' = IF Listed = {}
                   THEN CacheReturn("cleanup", "none", "void", FALSE, "no", 0)
                   ELSE cacheRet
    /\ UNCHANGED <<dirExists, files, now, lastSet>>
    /\ UNCHANGED <<execVars, memVars, cacheConfig>>

\* the callback of cleanup for one file goes on: fs.stat, and the comparison
\* of the file's mtime with the now of line 170
CleanupStat(f) ==
  LET c == TheCleanup(f) IN
    /\ \E d \in PendingCleanup : d.file = f
    /\ c.step = "stat"
    /\ pending' =
          IF files[c.file].present /\ c.at - files[c.file].mtime > cacheConfig.maxAge
          THEN (pending \ {c}) \cup {[c EXCEPT !.step = "unlink"]}
          ELSE pending \ {c}
    /\ cacheRet' = IF PendingCleanup' = {}
                   THEN CacheReturn("cleanup", "none", "void", FALSE,
                                    IF files[c.file].present THEN "no" ELSE "ENOENT", 0)
                   ELSE cacheRet
    /\ UNCHANGED <<dirExists, files, now, lastSet>>
    /\ UNCHANGED <<execVars, memVars, cacheConfig>>

\* the callback of cleanup for one file goes on after its stat: fs.unlink
CleanupUnlink(f) ==
  LET c == TheCleanup(f) IN
    /\ \E d \in PendingCleanup : d.file = f
    /\ c.step = "unlink"
    /\ pending' = pending \ {c}
    /\ files' = [files EXCEPT ![c.file] = NoFile]
    /\ cacheRet' = IF PendingCleanup' = {}
                   THEN CacheReturn("cleanup", "none", "void", FALSE,
                                    IF files[c.file].present THEN "no" ELSE "ENOENT",
                                    IF files[c.file].present THEN 1 ELSE 0)
                   ELSE cacheRet
    /\ UNCHANGED <<dirExists, now, lastSet>>
    /\ UNCHANGED <<execVars, memVars, cacheConfig>>

\* the values the overlapping calls cache
PlainValues == {"v1", "v2"}

OverlapNext ==
    \/ \E k \in Keys : GetStat(k)
    \/ GetUnlink
    \/ GetRead
    \/ \E k \in Keys, v \in PlainValues : CacheSet(k, v, FALSE)
    \/ CleanupList
    \/ \E f \in FileNames : CleanupStat(f)
    \/ \E f \in FileNames : CleanupUnlink(f)
    \/ CacheClock

OverlapSpec == CacheInitial /\ [][OverlapNext]_vars

\* ================================================== MemoryOptimizer =====
\* process.memoryUsage() is read anew by every call of shouldGC and of
\* getMemoryStats; the heap can move between two reads of one operation, so
\* each later read of an operation is an input of its step.

MemFrame == UNCHANGED <<execVars, cacheVars, memConfig, gcAvailable>>

\* variant of ShouldGC: a heap at the threshold counts as above it
ShouldGCAtThreshold(bytes) == bytes >= memConfig.gcThreshold * BytesPerMB

\* shouldGC() when process.memoryUsage().heapUsed is bytes:
\* usedMB = heapUsed / 1024 / 1024; return usedMB > this.config.gcThreshold
ShouldGC(bytes) == bytes > memConfig.gcThreshold * BytesPerMB

\* Math.round(bytes / 1024 / 1024)
RoundMB(bytes) == (2 * bytes + BytesPerMB) \div (2 * BytesPerMB)

\* getMemoryStats() when its own read sees first and the read of the
\* shouldGC() it calls sees second (heapTotal, external and rss are left out)
MemoryStats(first, second) ==
    [heapUsed |-> RoundMB(first),
     threshold |-> memConfig.gcThreshold,
     shouldGC |-> ShouldGC(second)]

\* variant of OptimizeRuns: forceGC is not consulted
OptimizeRunsUnforced(bytes) == ShouldGC(bytes) /\ gcAvailable

\* the condition of optimize(): this.shouldGC() && global.gc && this.config.forceGC
OptimizeRuns(bytes) == ShouldGC(bytes) /\ gcAvailable /\ memConfig.forceGC

\* timer is the interval a tick or a cancel function belongs to, 0 otherwise
MemReturn(op, result, hook, seen, moved, stats, intervalId) ==
    [op |-> op, result |-> result, hook |-> hook, seen |-> seen, moved |-> moved,
     stats |-> stats, timer |-> intervalId]

\* shouldGC()
MemShouldGC ==
    /\ memRet' = MemReturn("shouldGC", ShouldGC(heapUsed), FALSE, heapUsed, FALSE, NoSample, 0)
    /\ UNCHANGED <<heapUsed, gcInvoked, monitors>>
    /\ MemFrame

\* getMemoryStats()
GetMemoryStats(second) ==
    /\ memRet' = MemReturn("getMemoryStats", FALSE, FALSE, second, second # heapUsed,
                           MemoryStats(heapUsed, second), 0)
    /\ heapUsed' = second
    /\ UNCHANGED <<gcInvoked, monitors>>
    /\ MemFrame

\* optimize(): global.gc() and true when the condition holds, false otherwise
Optimize ==
    /\ memRet' = MemReturn("optimize", OptimizeRuns(heapUsed), OptimizeRuns(heapUsed),
                           heapUsed, FALSE, NoSample, 0)
    /\ gcInvoked' = (gcInvoked \/ OptimizeRuns(heapUsed))
    /\ UNCHANGED <<heapUsed, monitors>>
    /\ MemFrame

\* variant of TimerFires: clearInterval does not stop the interval
TimerFiresOnceSet(m) == monitors[m] # "unused"

\* the interval of monitor m calls its callback: setInterval has set it and
\* clearInterval(intervalId) has not cleared it
TimerFires(m) == monitors[m] = "active"

\* monitorMemory(interval): setInterval; the timers get their ids in order
MonitorMemory(m) ==
    /\ monitors[m] = "unused"
    /\ \A k \in MonitorIds : k < m => monitors[k] # "unused"
    /\ monitors' = [monitors EXCEPT ![m] = "active"]
    /\ memRet' = MemReturn("monitorMemory", FALSE, FALSE, heapUsed, FALSE, NoSample, m)
    /\ UNCHANGED <<heapUsed, gcInvoked>>
    /\ MemFrame

\* a tick of the interval of monitor m: getMemoryStats(), and optimize() when
\* the sample says shouldGC; second and third are what the reads of the two
\* shouldGC() calls see
MonitorTick(m, second, third) ==
    LET stats == MemoryStats(heapUsed, second)
        runs == stats.shouldGC /\ OptimizeRuns(third)
        last == IF stats.shouldGC THEN third ELSE second
    IN  /\ TimerFires(m)
        /\ memRet' = MemReturn("tick", runs, runs, last, last # heapUsed, stats, m)
        /\ heapUsed' = last
        /\ gcInvoked' = (gcInvoked \/ runs)
        /\ UNCHANGED monitors
        /\ MemFrame

\* the function monitorMemory returned: clearInterval, as often as one likes;
\* result records whether the interval was still set when it was called
CancelMonitor(m) ==
    /\ monitors[m] \in {"active", "cancelled"}
    /\ monitors' = [monitors EXCEPT ![m] = "cancelled"]
    /\ memRet' = MemReturn("cancel", monitors[m] = "active", FALSE, heapUsed, FALSE,
                           NoSample, m)
    /\ UNCHANGED <<heapUsed, gcInvoked>>
    /\ MemFrame

\* the program allocates, or the collector frees
HeapMoves(bytes) ==
    /\ bytes # heapUsed
    /\ heapUsed' = bytes
    /\ memRet' = NoMemCall
    /\ UNCHANGED <<gcInvoked, monitors>>
    /\ MemFrame

\* the configs the model constructs memory optimizers with
PartialMemoryConfigs ==
    { [gcThreshold |-> t] : t \in 1..MaxThresholdCfg } \cup
    { [gcThreshold |-> t, forceGC |-> b] : t \in 1..MaxThresholdCfg, b \in BOOLEAN }

\* new MemoryOptimizer(config), in a process started with or without --expose-gc
MemInitial ==
    /\ \E partial \in PartialMemoryConfigs : memConfig = MemoryConstructor(partial)
    /\ heapUsed \in HeapSamples
    /\ gcAvailable \in BOOLEAN
    /\ MemStart
    /\ ExecSingleton
    /\ CacheSingleton

MemNext ==
    \/ MemShouldGC
    \/ \E second \in HeapSamples : GetMemoryStats(second)
    \/ Optimize
    \/ \E m \in MonitorIds : MonitorMemory(m)
    \/ \E m \in MonitorIds, second, third \in HeapSamples : MonitorTick(m, second, third)
    \/ \E m \in MonitorIds : CancelMonitor(m)
    \/ \E bytes \in HeapSamples : HeapMoves(bytes)

MemSpec == MemInitial /\ [][MemNext]_vars

\* ------------------------------------------------------- the constructors
\* What the three constructors make of the config they are given. The module
\* starts with its three singletons; each action constructs another object of
\* one class and the state holds the config of the latest one.

\* the maxWorkers a caller may write into a config: any number, 0 included
PassedWorkers == 0..MaxWorkersCfg

\* every config the model passes to new ParallelExecutor(config): none, the
\* configs of PartialConfigs, and those with an explicit maxWorkers
PassedConfigs ==
    {NoPartial} \cup PartialConfigs \cup
        { [k \in DOMAIN p \cup {"maxWorkers"} |->
              IF k = "maxWorkers" THEN w ELSE p[k]] :
              p \in PartialConfigs, w \in PassedWorkers }

\* new ParallelExecutor(config) on a host with cpus cores
NewParallelExecutor(cpus, partial) ==
    /\ config' = Constructor(cpus, partial)
    /\ UNCHANGED <<status, total, pc, attempt, timer, results, errors, promises,
                   progress, returned, thrown, calls, failures, waited, lastWait>>
    /\ UNCHANGED <<owner, invoked>>
    /\ UNCHANGED <<cacheVars, memVars>>

\* new CacheManager(config)
NewCacheManager(partial) ==
    /\ cacheConfig' = CacheConstructor(partial)
    /\ UNCHANGED <<dirExists, files, now, lastSet, cacheRet, pending>>
    /\ UNCHANGED <<execVars, memVars>>

\* new MemoryOptimizer(config)
NewMemoryOptimizer(partial) ==
    /\ memConfig' = MemoryConstructor(partial)
    /\ UNCHANGED <<heapUsed, gcAvailable, gcInvoked, monitors, memRet>>
    /\ UNCHANGED <<execVars, cacheVars>>

\* lines 244-246: the three singletons, on a host with some number of cores
ConstructInitial ==
    /\ \E cpus \in 0..MaxCpus : config = Constructor(cpus, NoPartial)
    /\ ExecStart
    /\ CacheSingleton
    /\ MemorySingleton

ConstructNext ==
    \/ \E cpus \in 0..MaxCpus, partial \in PassedConfigs :
          NewParallelExecutor(cpus, partial)
    \/ \E partial \in PartialCacheConfigs \cup {NoPartial} : NewCacheManager(partial)
    \/ \E partial \in PartialMemoryConfigs \cup {NoPartial} : NewMemoryOptimizer(partial)

ConstructSpec == ConstructInitial /\ [][ConstructNext]_vars

\* ------------------------------------------------------------------ claims
Submitted == 1..total
Settled == status \in {"returned", "thrown"}
Range(f) == {f[k] : k \in DOMAIN f}

\* the error of the last attempt of a task whose slot was rejected: the error
\* its promise rethrew or, when retryTask made no attempt at all, the error of
\* the first attempt that the catch block of executeParallel pushed
LastAttemptError(i) ==
    IF promises[i].reason = MaxRetriesExceeded
    THEN CHOOSE e \in {errors[k].error : k \in {j \in 1..Len(errors) : errors[j].by = i}} : TRUE
    ELSE promises[i].reason

\* C1: with maxWorkers >= 1, the number of tasks whose operation has been
\* started and has not settled never exceeds maxWorkers.
C1_InFlightBounded == config.maxWorkers >= 1 => InFlight <= config.maxWorkers

\* C2: with retryFailed, when every task succeeds on its first attempt or
\* after fewer than maxRetries failures, executeParallel returns normally and
\* the slot of each retried task holds the value of its successful attempt.
C2_RetriedSuccessReturned ==
    (/\ Settled
     /\ config.retryFailed
     /\ \A i \in Submitted :
            /\ promises[i].state = "fulfilled"
            /\ failures[i] = 0 \/ failures[i] < config.maxRetries)
    => /\ status = "returned"
       /\ \A i \in Submitted :
              failures[i] > 0 =>
                  /\ i <= Len(returned)
                  /\ returned[i] = TaskValue(i, failures[i] + 1) \/ returned[i] = Undefined
                  /\ returned[i] = promises[i].value

\* C3: onProgress is invoked exactly once per task slot, when the slot
\* resolves by success (first attempt or retry) or by terminal failure; for n
\* tasks it has been called n times when the call settles and the last call
\* received (n, n).
C3_ProgressOncePerSlot ==
    /\ \A i \in Submitted :
           Cardinality({k \in 1..Len(progress) : progress[k].slot = i})
               = IF promises[i].state # "pending" THEN 1 ELSE 0
    /\ Settled =>
           /\ Len(progress) = total
           /\ total > 0 =>
                  /\ progress[Len(progress)].completed = total
                  /\ progress[Len(progress)].total = total

\* C4: for every task that fails on all maxRetries + 1 attempts the batch
\* fails and the aggregate error includes the error of the task's last attempt.
C4_TerminalErrorListed ==
    \A i \in Submitted :
        (/\ Settled
         /\ config.retryFailed
         /\ promises[i].state = "rejected"
         /\ failures[i] = config.maxRetries + 1)
        => /\ status = "thrown"
           /\ LastAttemptError(i) \in Range(thrown)

\* C5: the retry numbered attempt starts only after 2^attempt * 100 ms have
\* elapsed since the previous attempt failed, and no backoff delay is waited
\* after the last failed attempt.
C5_BackoffBeforeEveryRetry ==
    \A i \in Submitted :
        /\ pc[i] = "retry" => lastWait[i] >= (2 ^ attempt[i]) * 100
        /\ pc[i] = "backoff" => attempt[i] < config.maxRetries
FailStep(i) == failures'[i] = failures[i] + 1

RetryPolicyFollowed(i) ==
    IF pc[i] = "first"
    THEN IF config.retryFailed /\ config.maxRetries >= 1
         THEN /\ pc'[i] = "retry"
              /\ attempt'[i] = 1
              /\ calls'[i] = calls[i] + 1
              /\ timer'[i] = config.timeout
         ELSE pc'[i] = "rejected" /\ calls'[i] = calls[i]
    ELSE IF attempt[i] < config.maxRetries
         THEN /\ pc'[i] = "backoff"
              /\ attempt'[i] = attempt[i]
              /\ calls'[i] = calls[i]
         ELSE pc'[i] = "rejected" /\ calls'[i] = calls[i]

TimeoutErrorRaised(i) ==
    /\ pc[i] = "first" => errors' = Append(errors, [by |-> i, error |-> TaskTimeout])
    /\ (pc[i] = "retry" \/ ~config.retryFailed) /\ pc'[i] = "rejected" =>
           promises'[i].reason = TaskTimeout

C8_TimeoutRetriedLikeRejection ==
    [][\A i \in Tasks :
          /\ (Running(i) /\ timer[i] = 0 /\ pc'[i] # pc[i]) => FailStep(i)
          /\ (Running(i) /\ timer[i] = 0 /\ FailStep(i)) => TimeoutErrorRaised(i)
          /\ (Running(i) /\ FailStep(i)) => RetryPolicyFollowed(i)
          /\ calls'[i] = calls[i] + 1 => timer'[i] = config.timeout]_vars

\* a task whose first attempt and first retry both timed out and whose second
\* retry is running
C8_Witness ==
    \E i \in Submitted :
        /\ \E k \in 1..Len(errors) : errors[k] = [by |-> i, error |-> TaskTimeout]
        /\ pc[i] = "retry"
        /\ attempt[i] = 2
        /\ timer[i] = config.timeout

\* C9: if a task ultimately failed, executeParallel fails and every task
\* that ultimately failed has a message of its own in the aggregate error.
C9_EveryFailedTaskListed ==
    (Settled /\ \E i \in Submitted : promises[i].state = "rejected")
    => /\ status = "thrown"
       /\ \A i \in Submitted :
              promises[i].state = "rejected" =>
                  \E k \in 1..Len(errors) :
                      /\ errors[k].by = i
                      /\ k <= Len(thrown)
                      /\ thrown[k] = errors[k].error

\* a batch that failed with two failed tasks, one of them out of retries
C9_Witness ==
    /\ status = "thrown"
    /\ config.retryFailed
    /\ config.maxRetries >= 1
    /\ Cardinality({i \in Submitted : promises[i].state = "rejected"}) >= 2
    /\ \E i \in Submitted : failures[i] = config.maxRetries + 1

\* C10: a normal return gives a full list, one slot per task holding the
\* settled value of that task; every other outcome is one aggregate error.
C10_FullListOrError ==
    /\ status = "returned" =>
           /\ Len(returned) = total
           /\ \A i \in Submitted :
                  /\ promises[i].state = "fulfilled"
                  /\ returned[i] # Hole
                  /\ returned[i] = promises[i].value
           /\ thrown = <<>>
    /\ status = "thrown" => Len(thrown) >= 1 /\ returned = <<>>

\* a full batch returned, with a slot that holds undefined
C10_Witness ==
    /\ status = "returned"
    /\ total = MaxTasks
    /\ returned[1] = Undefined

\* C24: while every task of the batch has succeeded on its first attempt, the
\* k-th onProgress call received completed = k and total = n, whatever the
\* tasks resolved to, undefined included.
C24_ProgressCountsResolved ==
    (\A i \in Submitted : failures[i] = 0)
    => \A k \in 1..Len(progress) :
           /\ progress[k].completed = k
           /\ progress[k].total = total

\* C25: when executeParallel has returned or thrown, every task of the batch
\* has reached its final outcome: no attempt is running and no backoff wait is
\* pending, whichever task failed first.
C25_SettlesAfterEveryTask ==
    Settled
    => \A i \in Submitted :
           /\ pc[i] \in {"fulfilled", "rejected"}
           /\ promises[i].state # "pending"
           /\ ~Running(i)

\* the call threw after one task had failed every attempt, backoff waits
\* included, while another had succeeded at once
C25_Witness ==
    /\ status = "thrown"
    /\ \E i, j \in Submitted :
          /\ failures[i] >= 3
          /\ lastWait[i] >= 2 * TickMs
          /\ promises[i].state = "rejected"
          /\ failures[j] = 0
          /\ promises[j].state = "fulfilled"

\* C26: every executeParallel call eventually returns or throws, whatever the
\* batch, the timeout and maxRetries, and whether or not the operations of its
\* tasks ever settle.
C26_EveryCallSettles == (status = "running") ~> Settled

\* the call threw although no operation of some task ever settled: each of its
\* maxRetries + 1 attempts ran into its deadline
C26_Witness ==
    /\ status = "thrown"
    /\ config.retryFailed
    /\ config.maxRetries >= 2
    /\ \E i \in Submitted :
          /\ calls[i] = config.maxRetries + 1
          /\ failures[i] = calls[i]
          /\ promises[i].reason = TaskTimeout
          /\ \A e \in Range(errors) : e.by = i => e.error = TaskTimeout

\* the deadline of the running attempt of task i expires in this step
DeadlineExpires(i) ==
    Running(i) /\ timer[i] = 0 /\ failures'[i] = failures[i] + 1

\* the running attempt of task j fulfils within its deadline in this step
FulfilsInTime(j) ==
    Running(j) /\ timer[j] > 0 /\ promises'[j].state = "fulfilled"

\* the deadline of the first attempt of a task other than j has expired
OtherTimedOut(j) ==
    \E e \in Range(errors) : e.by # j /\ e.error = TaskTimeout

\* C27: the expiry of the deadline of an attempt of task i fails that attempt
\* only: no other task j fails, settles, or has its deadline or its slot changed
\* by it; an attempt of a task j that fulfils within its own deadline, after
\* the deadline of another task has expired, has its value written to slot j;
\* a task that has fulfilled is not failed later, and its slot is not written
\* again.
C27_DeadlinesIndependent ==
    [][\A i \in Tasks :
          /\ DeadlineExpires(i)
             => /\ failures'[i] = failures[i] + 1
                /\ \A j \in Tasks \ {i} :
                      /\ pc'[j] = pc[j]
                      /\ timer'[j] = timer[j]
                      /\ promises'[j] = promises[j]
                      /\ failures'[j] = failures[j]
                      /\ results'[j] = results[j]
          /\ (FulfilsInTime(i) /\ OtherTimedOut(i))
             => results'[i] = promises'[i].value
          /\ promises[i].state = "fulfilled"
             => /\ promises'[i] = promises[i]
                /\ failures'[i] = failures[i]
                /\ results'[i] = results[i]]_vars

\* C30: the outcome of a call depends on its own tasks only, whether the calls
\* on the executor follow each other or overlap: a call throws exactly when the
\* first attempt of one of its own tasks failed, its aggregate error lists one
\* error per such task and no error of a task of another call, and a call
\* that returns returns the values of its own tasks, slot by slot.
C30_CallsIndependent ==
    \A c \in Calls :
        /\ invoked[c].status = "thrown"
           => /\ Len(invoked[c].thrown)
                    = Cardinality({i \in TasksOf(c) : failures[i] >= 1})
              /\ Len(invoked[c].thrown) >= 1
              /\ \A k \in 1..Len(invoked[c].thrown) :
                    \E j \in 1..Len(errors) :
                        /\ owner[errors[j].by] = c
                        /\ errors[j].error = invoked[c].thrown[k]
        /\ invoked[c].status = "returned"
           => /\ \A i \in TasksOf(c) : failures[i] = 0 /\ promises[i].state = "fulfilled"
              /\ Len(invoked[c].returned) = invoked[c].n
              /\ \A k \in 1..invoked[c].n :
                    invoked[c].returned[k] = promises[Base(c) + k].value

\* a call whose task failed has thrown, and a call made while it was running
\* has returned the value of its own task
C30_Witness ==
    /\ invoked[1].status = "thrown"
    /\ invoked[2].status = "returned"
    /\ invoked[2].overlap
    /\ invoked[2].n >= 1

\* ----------------------------------------------------------- cache claims

\* JSON.parse(JSON.stringify(value)) gives value back
RoundTrips(value) == Parse(Stringify(value)) = value

\* the latest set was set(key, _) for the key of the get that just returned
GetAfterSet ==
    /\ cacheRet.op = "get"
    /\ lastSet.key = cacheRet.key

\* C11: for an enabled cache, a get(key) that follows set(key, value) by at
\* most maxAge ms returns value.  Stated for a value that round-trips through
\* JSON and for calls that met no I/O error and no damaged file, so that only
\* the storage directory is left to decide the outcome.
C11_SetThenGet ==
    ( /\ cacheConfig.enabled
      /\ GetAfterSet
      /\ RoundTrips(lastSet.value)
      /\ lastSet.failed # "EIO"
      /\ cacheRet.failed \notin {"EIO", ParseError}
      /\ now - lastSet.at <= cacheConfig.maxAge )
    => cacheRet.value = lastSet.value

\* C12: get never returns a value whose entry was written more than maxAge ms
\* ago, whether or not a cleanup ran after the entry expired: the file it
\* returned a value from is at most maxAge old
C12_NoStaleValue ==
    (cacheRet.op = "get" /\ cacheRet.value # Null)
    => /\ files[GetFilePath(cacheRet.key)].present
       /\ now - files[GetFilePath(cacheRet.key)].mtime <= cacheConfig.maxAge

\* a get met the entry of the latest set after it expired, with no fs call
\* failing, and returned null
C12_Witness ==
    /\ GetAfterSet
    /\ RoundTrips(lastSet.value)
    /\ lastSet.failed = "no"
    /\ now - lastSet.at > cacheConfig.maxAge
    /\ cacheRet.failed = "no"
    /\ cacheRet.value = Null

\* C13: no operation of the cache (init, get, set, clear, cleanup) ends with an
\* error its caller sees, whatever the state of the storage
C13_NoOperationThrows == ~cacheRet.threw

\* C14: get(key) returns null and does not throw when the key has no entry,
\* when the directory does not exist, when the content read is no JSON, and
\* when the stat, the read or the unlink of the entry fails
C14_GetFailsOpen ==
    cacheRet.op = "get"
    => /\ ~cacheRet.threw
       /\ cacheRet.failed # "no" => cacheRet.value = Null
       /\ ~dirExists => cacheRet.value = Null
       /\ ~files[GetFilePath(cacheRet.key)].present => cacheRet.value = Null

\* a get read damaged text from an entry that is stored and not expired
C14_Witness ==
    /\ cacheRet.op = "get"
    /\ cacheRet.failed = ParseError
    /\ ~cacheRet.threw
    /\ cacheRet.value = Null
    /\ files[GetFilePath(cacheRet.key)].present
    /\ ~Expired(GetFilePath(cacheRet.key))

\* the age of the entry in file f
EntryAge(f) == now - files[f].mtime

C16_ClearEmpties ==
    (cacheConfig.enabled /\ cacheRet.op = "clear") => Listed = {}

\* C16: after a clear() of an enabled cache none of whose fs calls met an I/O
\* error the storage
\* holds no entry; an entry appears only by a set of its key, and get returns a
\* value only from an entry that is stored: so get(k) returns null from such a
\* clear() until the next set(k, _)
C16_ClearEffect ==
    /\ []((cacheConfig.enabled /\ cacheRet.op = "clear" /\ cacheRet.failed # "EIO")
          => Listed = {})
    /\ []((cacheRet.op = "get" /\ cacheRet.value # Null)
          => files[GetFilePath(cacheRet.key)].present)
    /\ [][\A f \in FileNames :
              (files'[f].present /\ ~files[f].present)
              => (cacheRet'.op = "set" /\ GetFilePath(cacheRet'.key) = f)]_vars

\* a clear with no failing fs call removed two entries
C16_Witness ==
    /\ cacheConfig.enabled
    /\ cacheRet.op = "clear"
    /\ cacheRet.failed = "no"
    /\ cacheRet.unlinked = 2
    /\ Listed = {}

\* the latest set found an entry of its key in the storage: some set of the
\* same key came before it
SetAfterSet == lastSet.key # "none" /\ lastSet.over

\* the entry a successful set(key, value) at time at leaves
Written(key, value, at) ==
    [present |-> TRUE, content |-> Stringify(value), mtime |-> at, key |-> key]

C18_StrictlyAboveThreshold ==
    memRet.op = "shouldGC"
    => (memRet.result <=> memRet.seen > memConfig.gcThreshold * 1024 * 1024)

\* shouldGC() returned false for a heap of exactly gcThreshold MB
C18_Witness ==
    /\ memRet.op = "shouldGC"
    /\ memRet.seen = memConfig.gcThreshold * 1024 * 1024
    /\ ~memRet.result

\* C19: in the sample getMemoryStats() returns, shouldGC is true exactly when
\* the sample's heapUsed is greater than the sample's threshold.  Stated for a
\* heap that stands still while the sample is taken.
C19_FlagMatchesSample ==
    (memRet.op = "getMemoryStats" /\ ~memRet.moved)
    => (memRet.stats.shouldGC <=> memRet.stats.heapUsed > memRet.stats.threshold)

\* C20: optimize() calls global.gc() and returns true exactly when the heap it
\* read exceeds gcThreshold MB, forceGC is set and global.gc exists; otherwise
\* it returns false and does not call it.  So with forceGC false no optimize()
\* and no tick of a monitor ever calls global.gc().
C20_ReclaimsOnlyWhenAllowed ==
    /\ memRet.op \in {"optimize", "tick"}
       => /\ memRet.hook <=> memRet.result
          /\ memRet.result
             => /\ memRet.seen > memConfig.gcThreshold * 1024 * 1024
                /\ memConfig.forceGC
                /\ gcAvailable
    /\ memRet.op = "optimize"
       => ((/\ memRet.seen > memConfig.gcThreshold * 1024 * 1024
            /\ memConfig.forceGC
            /\ gcAvailable) => memRet.result)
    /\ memRet.op \notin {"optimize", "tick"} => ~memRet.hook
    /\ gcInvoked => (memConfig.forceGC /\ gcAvailable)

\* optimize() called global.gc() and returned true
C20_Witness ==
    /\ memRet.op = "optimize"
    /\ memRet.result
    /\ memRet.hook
    /\ gcInvoked

\* C21: each monitorMemory call sets exactly one interval; once the cancel
\* function of an interval has been called, no tick of that interval samples
\* memory or calls optimize() any more, while the other intervals keep ticking;
\* a further call of the cancel function changes nothing.
C21_CancelStopsTimer ==
    /\ [](memRet.op = "tick" => monitors[memRet.timer] = "active")
    /\ [][/\ memRet'.op = "monitorMemory"
             => /\ monitors[memRet'.timer] = "unused"
                /\ monitors' = [monitors EXCEPT ![memRet'.timer] = "active"]
          /\ \A m \in MonitorIds :
                monitors[m] = "cancelled"
                => /\ monitors'[m] = "cancelled"
                   /\ memRet'.op = "tick" => memRet'.timer # m
                   /\ (memRet'.op = "cancel" /\ memRet'.timer = m)
                      => /\ ~memRet'.result
                         /\ UNCHANGED <<monitors, heapUsed, gcInvoked>>
          /\ memRet'.op \in {"cancel", "monitorMemory"}
             => \A m \in MonitorIds \ {memRet'.timer} : monitors'[m] = monitors[m]]_vars

\* the cancel function of the first interval has been called a second time
\* while the second interval is still set
C21_Witness ==
    /\ memRet.op = "cancel"
    /\ ~memRet.result
    /\ memRet.timer = 1
    /\ monitors[1] = "cancelled"
    /\ monitors[2] = "active"

\* C23: on a disabled cache init() creates nothing, set, clear and cleanup
\* leave the storage as it is and get() returns null, whatever the storage
\* holds; on an enabled cache init() removes no entry, makes the directory when
\* mkdir succeeds, and changes nothing when the directory exists already, so
\* that a second init() leaves the state of the first.
C23_DisabledInertInitIdempotent ==
    [][/\ (~cacheConfig.enabled
           /\ cacheRet'.op \in {"init", "get", "set", "clear", "cleanup"})
          => /\ UNCHANGED <<dirExists, files>>
             /\ ~cacheRet'.threw
             /\ cacheRet'.op = "get" => cacheRet'.value = Null
       /\ cacheRet'.op = "init"
          => /\ files' = files
             /\ dirExists => UNCHANGED <<dirExists, files, now, lastSet>>
             /\ (cacheConfig.enabled /\ ~cacheRet'.threw) => dirExists'
             /\ cacheRet'.threw => UNCHANGED dirExists]_vars

\* get(key) of a disabled cache returned null over a stored entry of key
C23_Witness ==
    /\ ~cacheConfig.enabled
    /\ cacheRet.op = "get"
    /\ cacheRet.value = Null
    /\ dirExists
    /\ files[GetFilePath(cacheRet.key)].present

\* get(key) runs in this step over a storage that holds an entry of key
GetFinds(key) ==
    /\ cacheConfig.enabled
    /\ cacheRet'.op = "get"
    /\ cacheRet'.key = key
    /\ dirExists
    /\ files[GetFilePath(key)].present

\* C28, as stated: get(key) that finds an entry older than maxAge returns null
\* and leaves the storage without an entry for key.
C28_ExpiredEntryGone ==
    [][\A key \in Keys :
          (GetFinds(key) /\ EntryAge(GetFilePath(key)) > cacheConfig.maxAge)
          => /\ cacheRet'.value = Null
             /\ ~files'[GetFilePath(key)].present]_vars

\* C28: get(key) that finds an entry older than maxAge returns null, and
\* leaves the storage without an entry for key when none of its fs calls
\* failed; get(key) that finds an entry of age at most maxAge, or no entry,
\* leaves the storage as it is; no get changes the file of another key, the
\* directory or the clock.
C28_GetEffect ==
    [][\A key \in Keys :
          (cacheRet'.op = "get" /\ cacheRet'.key = key)
          => /\ (GetFinds(key) /\ EntryAge(GetFilePath(key)) > cacheConfig.maxAge)
                => /\ cacheRet'.value = Null
                   /\ cacheRet'.failed = "no" => ~files'[GetFilePath(key)].present
                   /\ files'[GetFilePath(key)] \in {files[GetFilePath(key)], NoFile}
             /\ (GetFinds(key) /\ EntryAge(GetFilePath(key)) <= cacheConfig.maxAge)
                => files' = files
             /\ ~GetFinds(key) => files' = files
             /\ \A f \in FileNames \ {GetFilePath(key)} : files'[f] = files[f]
             /\ UNCHANGED <<dirExists, now>>]_vars

\* a get has unlinked the expired entry of its key and returned null, and the
\* entry of the other key is still stored
C28_Witness ==
    /\ cacheRet.op = "get"
    /\ cacheRet.failed = "no"
    /\ cacheRet.unlinked = 1
    /\ cacheRet.value = Null
    /\ ~files[GetFilePath(cacheRet.key)].present
    /\ Cardinality(Listed) = 1

\* C29: whatever the interleaving of get, cleanup and set, an entry is removed
\* by get or cleanup only if it is expired at the moment it is removed.
C29_RemovedOnlyIfExpired ==
    [][\A f \in FileNames :
          (files[f].present /\ ~files'[f].present)
          => EntryAge(f) > cacheConfig.maxAge]_vars

\* -------------------------------------------------- constructor claims
\* C22: the maxWorkers of a constructed executor is an integer of at least 1,
\* whatever number of cores the host reports and whatever config was passed.
C22_MaxWorkersAtLeastOne ==
    config.maxWorkers \in Nat /\ config.maxWorkers >= 1

====
